---- MODULE Spec2Model ----
(***************************************************************************)
(* Model of generate_muse_bindings_mac_ctrl.py: a tool that scans a LaTeX  *)
(* style file for \newcommand / \renewcommand headers and emits VS Code    *)
(* keybindings and snippets for a fixed set of macros.                     *)
(*                                                                         *)
(* Text is a sequence of characters.  An ASCII character is the string of  *)
(* length one holding it; a character outside ASCII is written by its code *)
(* point ("U+4FEE").  A Python dict is a sequence of [k, v] records in     *)
(* insertion order.                                                        *)
(***************************************************************************)
EXTENDS Integers, Sequences, FiniteSets, TLC

VARIABLES
    text,          \* the style-file text being authored (input of the scan)
    written,       \* log of the fragments written into text
    tphase,        \* "edit" | "stripped" | "extracted" | "raised"
    cleaned,       \* strip_comments(text)
    recleaned,     \* strip_comments(cleaned)
    table,         \* extract_commands(text)
    cmd,           \* build_snippet: macro name
    n_args,        \* build_snippet: argument count
    body,          \* build_snippet: result
    built,         \* build_snippet has run
    cmds,          \* the MacroTable handed to the generators / main's cmds
    keybindings,   \* generate_keybindings(cmds)
    snippets,      \* generate_snippets(cmds)
    generated,     \* the generators have run
    argv,          \* sys.argv[1:], the path arguments
    vscode_dir,    \* whether the directory .vscode exists
    pc,            \* main's position
    sty_path,      \* main's sty_path
    sty_text,      \* main's sty_text
    files,         \* the two output files: their state and JSON document
    exit_status,   \* main's return value, -1 while running, 1 for a traceback
    stdout         \* lines printed

textVars == <<text, written, tphase, cleaned, recleaned, table>>
snipVars == <<cmd, n_args, body, built>>
genVars  == <<cmds, keybindings, snippets, generated>>
mainVars == <<argv, vscode_dir, pc, sty_path, sty_text, files, exit_status,
              stdout>>
vars == <<textVars, snipVars, genVars, mainVars>>

----------------------------------------------------------------------------
(* Bounds *)

MaxFrags == 3       \* fragments appended to text
MaxArgs == 11       \* largest argument count given to build_snippet
MaxTableArgs == 2   \* largest argument count in a drawn MacroTable
MaxArgv == 2        \* most path arguments on the command line

----------------------------------------------------------------------------
(* Characters *)

Letters ==
    {"a", "b", "c", "d", "e", "f", "g", "h", "i", "j", "k", "l", "m", "n",
     "o", "p", "q", "r", "s", "t", "u", "v", "w", "x", "y", "z", "A", "B",
     "C", "D", "E", "F", "G", "H", "I", "J", "K", "L", "M", "N", "O", "P",
     "Q", "R", "S", "T", "U", "V", "W", "X", "Y", "Z", "@"}

\* the digits of f"{i}"
AsciiDigits == <<"0", "1", "2", "3", "4", "5", "6", "7", "8", "9">>

\* \d of the regular expression, a str pattern: every Unicode decimal digit,
\* one row per script, each row in the order of the values 0 to 9
Digits ==
    <<<<"0", "1", "2", "3", "4",
        "5", "6", "7", "8", "9">>,
      <<"U+0660", "U+0661", "U+0662", "U+0663", "U+0664",
        "U+0665", "U+0666", "U+0667", "U+0668", "U+0669">>,
      <<"U+06F0", "U+06F1", "U+06F2", "U+06F3", "U+06F4",
        "U+06F5", "U+06F6", "U+06F7", "U+06F8", "U+06F9">>,
      <<"U+07C0", "U+07C1", "U+07C2", "U+07C3", "U+07C4",
        "U+07C5", "U+07C6", "U+07C7", "U+07C8", "U+07C9">>,
      <<"U+0966", "U+0967", "U+0968", "U+0969", "U+096A",
        "U+096B", "U+096C", "U+096D", "U+096E", "U+096F">>,
      <<"U+09E6", "U+09E7", "U+09E8", "U+09E9", "U+09EA",
        "U+09EB", "U+09EC", "U+09ED", "U+09EE", "U+09EF">>,
      <<"U+0A66", "U+0A67", "U+0A68", "U+0A69", "U+0A6A",
        "U+0A6B", "U+0A6C", "U+0A6D", "U+0A6E", "U+0A6F">>,
      <<"U+0AE6", "U+0AE7", "U+0AE8", "U+0AE9", "U+0AEA",
        "U+0AEB", "U+0AEC", "U+0AED", "U+0AEE", "U+0AEF">>,
      <<"U+0B66", "U+0B67", "U+0B68", "U+0B69", "U+0B6A",
        "U+0B6B", "U+0B6C", "U+0B6D", "U+0B6E", "U+0B6F">>,
      <<"U+0BE6", "U+0BE7", "U+0BE8", "U+0BE9", "U+0BEA",
        "U+0BEB", "U+0BEC", "U+0BED", "U+0BEE", "U+0BEF">>,
      <<"U+0C66", "U+0C67", "U+0C68", "U+0C69", "U+0C6A",
        "U+0C6B", "U+0C6C", "U+0C6D", "U+0C6E", "U+0C6F">>,
      <<"U+0CE6", "U+0CE7", "U+0CE8", "U+0CE9", "U+0CEA",
        "U+0CEB", "U+0CEC", "U+0CED", "U+0CEE", "U+0CEF">>,
      <<"U+0D66", "U+0D67", "U+0D68", "U+0D69", "U+0D6A",
        "U+0D6B", "U+0D6C", "U+0D6D", "U+0D6E", "U+0D6F">>,
      <<"U+0DE6", "U+0DE7", "U+0DE8", "U+0DE9", "U+0DEA",
        "U+0DEB", "U+0DEC", "U+0DED", "U+0DEE", "U+0DEF">>,
      <<"U+0E50", "U+0E51", "U+0E52", "U+0E53", "U+0E54",
        "U+0E55", "U+0E56", "U+0E57", "U+0E58", "U+0E59">>,
      <<"U+0ED0", "U+0ED1", "U+0ED2", "U+0ED3", "U+0ED4",
        "U+0ED5", "U+0ED6", "U+0ED7", "U+0ED8", "U+0ED9">>,
      <<"U+0F20", "U+0F21", "U+0F22", "U+0F23", "U+0F24",
        "U+0F25", "U+0F26", "U+0F27", "U+0F28", "U+0F29">>,
      <<"U+1040", "U+1041", "U+1042", "U+1043", "U+1044",
        "U+1045", "U+1046", "U+1047", "U+1048", "U+1049">>,
      <<"U+1090", "U+1091", "U+1092", "U+1093", "U+1094",
        "U+1095", "U+1096", "U+1097", "U+1098", "U+1099">>,
      <<"U+17E0", "U+17E1", "U+17E2", "U+17E3", "U+17E4",
        "U+17E5", "U+17E6", "U+17E7", "U+17E8", "U+17E9">>,
      <<"U+1810", "U+1811", "U+1812", "U+1813", "U+1814",
        "U+1815", "U+1816", "U+1817", "U+1818", "U+1819">>,
      <<"U+1946", "U+1947", "U+1948", "U+1949", "U+194A",
        "U+194B", "U+194C", "U+194D", "U+194E", "U+194F">>,
      <<"U+19D0", "U+19D1", "U+19D2", "U+19D3", "U+19D4",
        "U+19D5", "U+19D6", "U+19D7", "U+19D8", "U+19D9">>,
      <<"U+1A80", "U+1A81", "U+1A82", "U+1A83", "U+1A84",
        "U+1A85", "U+1A86", "U+1A87", "U+1A88", "U+1A89">>,
      <<"U+1A90", "U+1A91", "U+1A92", "U+1A93", "U+1A94",
        "U+1A95", "U+1A96", "U+1A97", "U+1A98", "U+1A99">>,
      <<"U+1B50", "U+1B51", "U+1B52", "U+1B53", "U+1B54",
        "U+1B55", "U+1B56", "U+1B57", "U+1B58", "U+1B59">>,
      <<"U+1BB0", "U+1BB1", "U+1BB2", "U+1BB3", "U+1BB4",
        "U+1BB5", "U+1BB6", "U+1BB7", "U+1BB8", "U+1BB9">>,
      <<"U+1C40", "U+1C41", "U+1C42", "U+1C43", "U+1C44",
        "U+1C45", "U+1C46", "U+1C47", "U+1C48", "U+1C49">>,
      <<"U+1C50", "U+1C51", "U+1C52", "U+1C53", "U+1C54",
        "U+1C55", "U+1C56", "U+1C57", "U+1C58", "U+1C59">>,
      <<"U+A620", "U+A621", "U+A622", "U+A623", "U+A624",
        "U+A625", "U+A626", "U+A627", "U+A628", "U+A629">>,
      <<"U+A8D0", "U+A8D1", "U+A8D2", "U+A8D3", "U+A8D4",
        "U+A8D5", "U+A8D6", "U+A8D7", "U+A8D8", "U+A8D9">>,
      <<"U+A900", "U+A901", "U+A902", "U+A903", "U+A904",
        "U+A905", "U+A906", "U+A907", "U+A908", "U+A909">>,
      <<"U+A9D0", "U+A9D1", "U+A9D2", "U+A9D3", "U+A9D4",
        "U+A9D5", "U+A9D6", "U+A9D7", "U+A9D8", "U+A9D9">>,
      <<"U+A9F0", "U+A9F1", "U+A9F2", "U+A9F3", "U+A9F4",
        "U+A9F5", "U+A9F6", "U+A9F7", "U+A9F8", "U+A9F9">>,
      <<"U+AA50", "U+AA51", "U+AA52", "U+AA53", "U+AA54",
        "U+AA55", "U+AA56", "U+AA57", "U+AA58", "U+AA59">>,
      <<"U+ABF0", "U+ABF1", "U+ABF2", "U+ABF3", "U+ABF4",
        "U+ABF5", "U+ABF6", "U+ABF7", "U+ABF8", "U+ABF9">>,
      <<"U+FF10", "U+FF11", "U+FF12", "U+FF13", "U+FF14",
        "U+FF15", "U+FF16", "U+FF17", "U+FF18", "U+FF19">>,
      <<"U+104A0", "U+104A1", "U+104A2", "U+104A3", "U+104A4",
        "U+104A5", "U+104A6", "U+104A7", "U+104A8", "U+104A9">>,
      <<"U+10D30", "U+10D31", "U+10D32", "U+10D33", "U+10D34",
        "U+10D35", "U+10D36", "U+10D37", "U+10D38", "U+10D39">>,
      <<"U+11066", "U+11067", "U+11068", "U+11069", "U+1106A",
        "U+1106B", "U+1106C", "U+1106D", "U+1106E", "U+1106F">>,
      <<"U+110F0", "U+110F1", "U+110F2", "U+110F3", "U+110F4",
        "U+110F5", "U+110F6", "U+110F7", "U+110F8", "U+110F9">>,
      <<"U+11136", "U+11137", "U+11138", "U+11139", "U+1113A",
        "U+1113B", "U+1113C", "U+1113D", "U+1113E", "U+1113F">>,
      <<"U+111D0", "U+111D1", "U+111D2", "U+111D3", "U+111D4",
        "U+111D5", "U+111D6", "U+111D7", "U+111D8", "U+111D9">>,
      <<"U+112F0", "U+112F1", "U+112F2", "U+112F3", "U+112F4",
        "U+112F5", "U+112F6", "U+112F7", "U+112F8", "U+112F9">>,
      <<"U+11450", "U+11451", "U+11452", "U+11453", "U+11454",
        "U+11455", "U+11456", "U+11457", "U+11458", "U+11459">>,
      <<"U+114D0", "U+114D1", "U+114D2", "U+114D3", "U+114D4",
        "U+114D5", "U+114D6", "U+114D7", "U+114D8", "U+114D9">>,
      <<"U+11650", "U+11651", "U+11652", "U+11653", "U+11654",
        "U+11655", "U+11656", "U+11657", "U+11658", "U+11659">>,
      <<"U+116C0", "U+116C1", "U+116C2", "U+116C3", "U+116C4",
        "U+116C5", "U+116C6", "U+116C7", "U+116C8", "U+116C9">>,
      <<"U+11730", "U+11731", "U+11732", "U+11733", "U+11734",
        "U+11735", "U+11736", "U+11737", "U+11738", "U+11739">>,
      <<"U+118E0", "U+118E1", "U+118E2", "U+118E3", "U+118E4",
        "U+118E5", "U+118E6", "U+118E7", "U+118E8", "U+118E9">>,
      <<"U+11950", "U+11951", "U+11952", "U+11953", "U+11954",
        "U+11955", "U+11956", "U+11957", "U+11958", "U+11959">>,
      <<"U+11C50", "U+11C51", "U+11C52", "U+11C53", "U+11C54",
        "U+11C55", "U+11C56", "U+11C57", "U+11C58", "U+11C59">>,
      <<"U+11D50", "U+11D51", "U+11D52", "U+11D53", "U+11D54",
        "U+11D55", "U+11D56", "U+11D57", "U+11D58", "U+11D59">>,
      <<"U+11DA0", "U+11DA1", "U+11DA2", "U+11DA3", "U+11DA4",
        "U+11DA5", "U+11DA6", "U+11DA7", "U+11DA8", "U+11DA9">>,
      <<"U+16A60", "U+16A61", "U+16A62", "U+16A63", "U+16A64",
        "U+16A65", "U+16A66", "U+16A67", "U+16A68", "U+16A69">>,
      <<"U+16AC0", "U+16AC1", "U+16AC2", "U+16AC3", "U+16AC4",
        "U+16AC5", "U+16AC6", "U+16AC7", "U+16AC8", "U+16AC9">>,
      <<"U+16B50", "U+16B51", "U+16B52", "U+16B53", "U+16B54",
        "U+16B55", "U+16B56", "U+16B57", "U+16B58", "U+16B59">>,
      <<"U+1D7CE", "U+1D7CF", "U+1D7D0", "U+1D7D1", "U+1D7D2",
        "U+1D7D3", "U+1D7D4", "U+1D7D5", "U+1D7D6", "U+1D7D7">>,
      <<"U+1D7D8", "U+1D7D9", "U+1D7DA", "U+1D7DB", "U+1D7DC",
        "U+1D7DD", "U+1D7DE", "U+1D7DF", "U+1D7E0", "U+1D7E1">>,
      <<"U+1D7E2", "U+1D7E3", "U+1D7E4", "U+1D7E5", "U+1D7E6",
        "U+1D7E7", "U+1D7E8", "U+1D7E9", "U+1D7EA", "U+1D7EB">>,
      <<"U+1D7EC", "U+1D7ED", "U+1D7EE", "U+1D7EF", "U+1D7F0",
        "U+1D7F1", "U+1D7F2", "U+1D7F3", "U+1D7F4", "U+1D7F5">>,
      <<"U+1D7F6", "U+1D7F7", "U+1D7F8", "U+1D7F9", "U+1D7FA",
        "U+1D7FB", "U+1D7FC", "U+1D7FD", "U+1D7FE", "U+1D7FF">>,
      <<"U+1E140", "U+1E141", "U+1E142", "U+1E143", "U+1E144",
        "U+1E145", "U+1E146", "U+1E147", "U+1E148", "U+1E149">>,
      <<"U+1E2F0", "U+1E2F1", "U+1E2F2", "U+1E2F3", "U+1E2F4",
        "U+1E2F5", "U+1E2F6", "U+1E2F7", "U+1E2F8", "U+1E2F9">>,
      <<"U+1E950", "U+1E951", "U+1E952", "U+1E953", "U+1E954",
        "U+1E955", "U+1E956", "U+1E957", "U+1E958", "U+1E959">>,
      <<"U+1FBF0", "U+1FBF1", "U+1FBF2", "U+1FBF3", "U+1FBF4",
        "U+1FBF5", "U+1FBF6", "U+1FBF7", "U+1FBF8", "U+1FBF9">>>>

DigitSet == {Digits[r][i] : r \in 1..Len(Digits), i \in 1..10}

\* \s of the regular expressions: the characters str.isspace holds of
Whitespace ==
    {" ", "\t", "\n", "\r", "\f", "U+000B", "U+001C", "U+001D", "U+001E",
     "U+001F", "U+0085", "U+00A0", "U+1680", "U+2000", "U+2001", "U+2002",
     "U+2003", "U+2004", "U+2005", "U+2006", "U+2007", "U+2008", "U+2009",
     "U+200A", "U+2028", "U+2029", "U+202F", "U+205F", "U+3000"}

\* the line boundaries of str.splitlines
LineBreaks == {"\n", "\r", "\f", "U+000B", "U+001C", "U+001D", "U+001E",
               "U+0085", "U+2028", "U+2029"}

\* s[i], or a mark that is no character when i is outside s
CharAt(s, i) == IF i >= 1 /\ i <= Len(s) THEN s[i] ELSE "EOF"

\* the value int gives the decimal digit c, whatever its script
DigitValue(c) ==
    (CHOOSE i \in 1..10 : \E r \in 1..Len(Digits) : Digits[r][i] = c) - 1

RECURSIVE Concat(_)
Concat(parts) ==
    IF parts = <<>> THEN <<>> ELSE Head(parts) \o Concat(Tail(parts))

RECURSIVE Join(_, _)
Join(sep, lines) ==
    IF lines = <<>> THEN <<>>
    ELSE IF Len(lines) = 1 THEN lines[1]
    ELSE lines[1] \o sep \o Join(sep, Tail(lines))

\* str(i) for i >= 0
RECURSIVE str(_)
str(i) == IF i < 10 THEN <<AsciiDigits[i + 1]>>
          ELSE str(i \div 10) \o <<AsciiDigits[(i % 10) + 1]>>

\* the longest string of digits int converts (sys.get_int_max_str_digits())
int_max_str_digits == 4300

\* what stands for the ValueError int raises on a longer string
ValueError == "ValueError"

\* the number a non-empty string of decimal digits denotes
RECURSIVE PositionalValue(_)
PositionalValue(s) ==
    IF Len(s) = 1 THEN DigitValue(s[1])
    ELSE 10 * PositionalValue(SubSeq(s, 1, Len(s) - 1))
         + DigitValue(s[Len(s)])

\* int(s) for a non-empty string of decimal digits
int(s) == IF Len(s) > int_max_str_digits THEN ValueError
          ELSE PositionalValue(s)

----------------------------------------------------------------------------
(* Dicts, in insertion order *)

DictHas(d, k) == \E i \in 1..Len(d) : d[i].k = k

DictGet(d, k) == d[CHOOSE i \in 1..Len(d) : d[i].k = k].v

DictKeys(d) == [i \in 1..Len(d) |-> d[i].k]

\* faulty variant of DictSet: an existing key keeps its first value
DictSet_KeepFirst(d, k, v) ==
    IF DictHas(d, k) THEN d ELSE Append(d, [k |-> k, v |-> v])

\* d[k] = v: an existing key keeps its place and takes the new value
DictSet(d, k, v) ==
    IF DictHas(d, k)
    THEN [i \in 1..Len(d) |-> IF d[i].k = k THEN [k |-> k, v |-> v] ELSE d[i]]
    ELSE Append(d, [k |-> k, v |-> v])

----------------------------------------------------------------------------
(* strip_comments *)

Min(S) == CHOOSE x \in S : \A y \in S : x <= y

\* text.splitlines() from place i on: the line up to the first line boundary
\* ("\r\n" is one boundary), then the lines of the rest; no line for an
\* empty rest
RECURSIVE splitlines_from(_, _)
splitlines_from(t, i) ==
    LET breaks == {j \in i..Len(t) : t[j] \in LineBreaks}
        b == Min(breaks)
        after == IF t[b] = "\r" /\ CharAt(t, b + 1) = "\n" THEN b + 2
                 ELSE b + 1
    IN  IF i > Len(t) THEN <<>>
        ELSE IF breaks = {} THEN <<SubSeq(t, i, Len(t))>>
        ELSE <<SubSeq(t, i, b - 1)>> \o splitlines_from(t, after)

splitlines(t) == splitlines_from(t, 1)

\* the places of line where (?<!\\)% matches
CommentStarts(line) ==
    {i \in 1..Len(line) : line[i] = "%" /\ (i = 1 \/ line[i - 1] # "\\")}

\* re.sub(r"(?<!\\)%.*$", "", line) on a line without line breaks
StripLine(line) ==
    IF CommentStarts(line) = {} THEN line
    ELSE SubSeq(line, 1, Min(CommentStarts(line)) - 1)

strip_comments(t) ==
    LET ls == splitlines(t)
    IN  Join(<<"\n">>, [i \in 1..Len(ls) |-> StripLine(ls[i])])

----------------------------------------------------------------------------
(* extract_commands *)

\* whether lit occurs in s at place i
LitAt(s, i, lit) ==
    /\ i + Len(lit) - 1 <= Len(s)
    /\ \A j \in 1..Len(lit) : s[i + j - 1] = lit[j]

\* the place after the longest run of characters of class C starting at i
SkipClass(s, i, C) ==
    IF i > Len(s) THEN i
    ELSE Min({j \in i..(Len(s) + 1) : CharAt(s, j) \notin C})

NoMatch == [matched |-> FALSE, end |-> 0, name |-> <<>>, n_str |-> <<>>]

\* (?:\[\s*(\d+)\s*\])? at place i: the group's digits and the place after it,
\* or no digits and place i when the group does not match
CountGroupAt(s, i) ==
    LET k1 == SkipClass(s, i + 1, Whitespace)
        k2 == SkipClass(s, k1, DigitSet)
        k3 == SkipClass(s, k2, Whitespace)
    IN  IF CharAt(s, i) = "[" /\ k2 > k1 /\ CharAt(s, k3) = "]"
        THEN [n_str |-> SubSeq(s, k1, k2 - 1), end |-> k3 + 1]
        ELSE [n_str |-> <<>>, end |-> i]

\* \s*\{\s*\\([A-Za-z@]+)\s*\}\s*(?:\[\s*(\d+)\s*\])? at place i
HeaderAt(s, i) ==
    LET j4 == SkipClass(s, i, Whitespace)
        j5 == SkipClass(s, j4 + 1, Whitespace)
        j6 == SkipClass(s, j5 + 1, Letters)
        j7 == SkipClass(s, j6, Whitespace)
        j8 == SkipClass(s, j7 + 1, Whitespace)
        g  == CountGroupAt(s, j8)
    IN  IF /\ CharAt(s, j4) = "{"
           /\ CharAt(s, j5) = "\\"
           /\ j6 > j5 + 1
           /\ CharAt(s, j7) = "}"
        THEN [matched |-> TRUE, end |-> g.end,
              name |-> SubSeq(s, j5 + 1, j6 - 1), n_str |-> g.n_str]
        ELSE NoMatch

\* pattern.match(s, i): \\(?:re)?newcommand first with "re", then without
MatchAt(s, i) ==
    LET re == <<"r", "e">>
        newcommand == <<"n", "e", "w", "c", "o", "m", "m", "a", "n", "d">>
        with == IF LitAt(s, i + 1, re) /\ LitAt(s, i + 3, newcommand)
                THEN HeaderAt(s, i + 13) ELSE NoMatch
        without == IF LitAt(s, i + 1, newcommand)
                   THEN HeaderAt(s, i + 11) ELSE NoMatch
    IN  IF CharAt(s, i) # "\\" THEN NoMatch
        ELSE IF with.matched THEN with
        ELSE without

\* pattern.finditer(s): the matches from place i on, left to right, not
\* overlapping
RECURSIVE finditer(_, _)
finditer(s, i) ==
    LET starts == {j \in i..Len(s) : MatchAt(s, j).matched}
        m == MatchAt(s, Min(starts))
    IN  IF starts = {} THEN <<>> ELSE <<m>> \o finditer(s, m.end)

\* faulty variant of RecordMatch: a missing count is taken to be 1
RecordMatch_DefaultOne(d, m) ==
    IF Len(m.n_str) > int_max_str_digits THEN ValueError
    ELSE DictSet(d, m.name, IF m.n_str # <<>> THEN int(m.n_str) ELSE 1)

\* the loop body: n_args = int(n_str) if n_str else 0; cmds[name] = n_args;
\* when int raises, nothing is assigned and the ValueError is the outcome
RecordMatch(d, m) ==
    IF Len(m.n_str) > int_max_str_digits THEN ValueError
    ELSE DictSet(d, m.name, IF m.n_str # <<>> THEN int(m.n_str) ELSE 0)

\* the loop: it ends at the first match on which int raises
RECURSIVE RecordAll(_, _)
RecordAll(d, ms) ==
    IF ms = <<>> THEN d
    ELSE IF Len(Head(ms).n_str) > int_max_str_digits THEN ValueError
    ELSE RecordAll(RecordMatch(d, Head(ms)), Tail(ms))

\* whether int(n_str) raises for one of the matches ms
IntRaises(ms) ==
    \E i \in 1..Len(ms) : Len(ms[i].n_str) > int_max_str_digits

\* whether extract_commands(t) ends in int's ValueError; the digits of a
\* match are part of t, so a text no longer than the limit never raises
extract_commands_raises(t) ==
    /\ Len(t) > int_max_str_digits
    /\ IntRaises(finditer(strip_comments(t), 1))

extract_commands(t) == RecordAll(<<>>, finditer(strip_comments(t), 1))

----------------------------------------------------------------------------
(* Configuration *)

WHEN_CLAUSE == "editorTextFocus && editorLangId == latex"

deleted == <<"d", "e", "l", "e", "t", "e", "d">>
added == <<"a", "d", "d", "e", "d">>
commented == <<"c", "o", "m", "m", "e", "n", "t", "e", "d">>
highlight == <<"h", "i", "g", "h", "l", "i", "g", "h", "t">>
needRef == <<"n", "e", "e", "d", "R", "e", "f">>
modified == <<"m", "o", "d", "i", "f", "i", "e", "d">>
highlightComment ==
    <<"h", "i", "g", "h", "l", "i", "g", "h", "t", "C", "o", "m", "m", "e",
      "n", "t">>

KEY_MAP ==
    <<[k |-> deleted, v |-> <<"d">>],
      [k |-> added, v |-> <<"a">>],
      [k |-> commented, v |-> <<"c">>],
      [k |-> highlight, v |-> <<"h">>],
      [k |-> needRef, v |-> <<"r">>],
      [k |-> modified, v |-> <<"m">>],
      [k |-> highlightComment, v |-> <<"h">>]>>

\* faulty variant of USE_ALT_PRIMARY: no macro takes the alt chords
USE_ALT_PRIMARY_Empty == {}

USE_ALT_PRIMARY == {highlightComment}

----------------------------------------------------------------------------
(* build_snippet *)

\* ${TM_SELECTED_TEXT:$1}
Selection ==
    <<"$", "{", "T", "M", "_", "S", "E", "L", "E", "C", "T", "E", "D", "_",
      "T", "E", "X", "T", ":", "$", "1", "}">>

LabelCorrected == <<"U+4FEE", "U+6B63", "U+5F8C">>
LabelComment == <<"U+30B3", "U+30E1", "U+30F3", "U+30C8">>
LabelArgument == <<"U+5F15", "U+6570">>

\* f"\\{cmd}{{${{TM_SELECTED_TEXT:$1}}}}"
FirstGroup(c) == <<"\\">> \o c \o <<"{">> \o Selection \o <<"}">>

\* f"{{${{{i}:<label>{i}}}}}" of the loop
ArgumentPart(i) ==
    <<"{", "$", "{">> \o str(i) \o <<":">> \o LabelArgument \o str(i)
    \o <<"}", "}">>

\* faulty variant of ArgumentParts: for i in range(2, n_args)
ArgumentParts_Short(n) == [j \in 1..(n - 2) |-> ArgumentPart(j + 1)]

\* the parts appended by: for i in range(2, n_args + 1)
ArgumentParts(n) == [j \in 1..(n - 1) |-> ArgumentPart(j + 1)]

\* faulty variant of build_snippet: the two special labels exchanged
build_snippet_Swapped(c, n) ==
    IF n <= 0 THEN <<"\\">> \o c \o <<" ">> \o Selection
    ELSE IF n = 1 THEN FirstGroup(c)
    ELSE IF n = 2 THEN
        IF c = modified
        THEN FirstGroup(c) \o <<"{", "$", "{", "2", ":">> \o LabelComment
             \o <<"}", "}">>
        ELSE IF c \in {commented, highlightComment}
        THEN FirstGroup(c) \o <<"{", "$", "{", "2", ":">> \o LabelCorrected
             \o <<"}", "}">>
        ELSE FirstGroup(c) \o <<"{", "$", "{", "2", ":">> \o LabelArgument
             \o <<"2", "}", "}">>
    ELSE Concat(<<FirstGroup(c)>> \o ArgumentParts(n))

build_snippet(c, n) ==
    IF n <= 0 THEN <<"\\">> \o c \o <<" ">> \o Selection
    ELSE IF n = 1 THEN FirstGroup(c)
    ELSE IF n = 2 THEN
        IF c = modified
        THEN FirstGroup(c) \o <<"{", "$", "{", "2", ":">> \o LabelCorrected
             \o <<"}", "}">>
        ELSE IF c \in {commented, highlightComment}
        THEN FirstGroup(c) \o <<"{", "$", "{", "2", ":">> \o LabelComment
             \o <<"}", "}">>
        ELSE FirstGroup(c) \o <<"{", "$", "{", "2", ":">> \o LabelArgument
             \o <<"2", "}", "}">>
    ELSE Concat(<<FirstGroup(c)>> \o ArgumentParts(n))

----------------------------------------------------------------------------
(* generate_keybindings, generate_snippets *)

make_binding(key, snippet) ==
    [key |-> key, command |-> "editor.action.insertSnippet",
     when |-> WHEN_CLAUSE, args |-> [snippet |-> snippet]]

\* faulty variant of BindingsFor: the fallback chord never takes alt
BindingsFor_PlainFallback(d, c, base_key) ==
    LET snippet == build_snippet(c, DictGet(d, c))
        primary == IF c \in USE_ALT_PRIMARY
                   THEN <<"c", "t", "r", "l", "+", "a", "l", "t", "+">>
                        \o base_key
                   ELSE <<"c", "t", "r", "l", "+">> \o base_key
        fallback == <<"c", "t", "r", "l", "+", "s", "h", "i", "f", "t", "+">>
                    \o base_key
    IN  IF ~DictHas(d, c) THEN <<>>
        ELSE <<make_binding(primary, snippet), make_binding(fallback, snippet)>>

\* one turn of the loop of generate_keybindings: the bindings appended for
\* the entry (c, base_key) of KEY_MAP
BindingsFor(d, c, base_key) ==
    LET snippet == build_snippet(c, DictGet(d, c))
        primary == IF c \in USE_ALT_PRIMARY
                   THEN <<"c", "t", "r", "l", "+", "a", "l", "t", "+">>
                        \o base_key
                   ELSE <<"c", "t", "r", "l", "+">> \o base_key
        fallback == IF c \in USE_ALT_PRIMARY
                    THEN <<"c", "t", "r", "l", "+", "s", "h", "i", "f", "t",
                           "+", "a", "l", "t", "+">> \o base_key
                    ELSE <<"c", "t", "r", "l", "+", "s", "h", "i", "f", "t",
                           "+">> \o base_key
    IN  IF ~DictHas(d, c) THEN <<>>
        ELSE <<make_binding(primary, snippet), make_binding(fallback, snippet)>>

generate_keybindings(d) ==
    Concat([i \in 1..Len(KEY_MAP) |-> BindingsFor(d, KEY_MAP[i].k, KEY_MAP[i].v)])

\* the entry generate_snippets stores for macro c
SnippetEntry(d, c) ==
    [prefix |-> <<"m", "u", "s", "e", "-">> \o c,
     body |-> <<build_snippet(c, DictGet(d, c))>>,
     description |->
         <<"m", "u", "s", "e", "l", "a", "b", "-", "c", "o", "r", "r", "e",
           "c", "t", "i", "o", "n", ":", " ", "\\">> \o c
         \o <<" ", "(", "a", "u", "t", "o", "-", "g", "e", "n", "e", "r",
              "a", "t", "e", "d", ")">>]

\* the loop of generate_snippets over the names ks, snippets being acc so far
RECURSIVE SnippetsLoop(_, _, _)
SnippetsLoop(d, ks, acc) ==
    IF ks = <<>> THEN acc
    ELSE IF ~DictHas(d, Head(ks)) THEN SnippetsLoop(d, Tail(ks), acc)
    ELSE SnippetsLoop(d, Tail(ks),
             DictSet(acc, <<"m", "u", "s", "e", ":", " ">> \o Head(ks),
                     SnippetEntry(d, Head(ks))))

\* faulty variant of generate_snippets: the loop runs over cmds
generate_snippets_OverCmds(d) == SnippetsLoop(d, DictKeys(d), <<>>)

generate_snippets(d) == SnippetsLoop(d, DictKeys(KEY_MAP), <<>>)

----------------------------------------------------------------------------
(* Values of the variables a specification does not use *)

IdleText == /\ text = <<>> /\ written = <<>> /\ tphase = "idle"
            /\ cleaned = <<>> /\ recleaned = <<>> /\ table = <<>>

IdleSnip == cmd = <<>> /\ n_args = 0 /\ body = <<>> /\ built = FALSE

IdleGen == /\ cmds = <<>> /\ keybindings = <<>> /\ snippets = <<>>
           /\ generated = FALSE

IdleMain == /\ argv = <<>> /\ vscode_dir = FALSE /\ pc = "idle"
            /\ sty_path = "" /\ sty_text = <<>> /\ files = <<>> /\ exit_status = -1
            /\ stdout = <<>>

----------------------------------------------------------------------------
(* SpecText: a style file is written fragment by fragment, then scanned *)

\* the bracketed count as written, and the number it denotes; the last is
\* 1 followed by ARABIC-INDIC DIGIT ZERO
CountForms ==
    {[has |-> FALSE, digits |-> <<>>, val |-> 0],
     [has |-> TRUE, digits |-> <<"0">>, val |-> 0],
     [has |-> TRUE, digits |-> <<"2">>, val |-> 2],
     [has |-> TRUE, digits |-> <<"1", "U+0660">>, val |-> 10]}

\* the ways a definition header is written: macro name and layout
Headers ==
    {[name |-> <<"a", "d", "d", "e", "d">>, style |-> "tight"],
     [name |-> <<"a", "d", "d", "e", "d">>, style |-> "spaced"],
     [name |-> <<"m", "y", "@", "X">>, style |-> "tight"]}

\* \newcommand{\name}[N]  or  \renewcommand { \name } [ N ]
DefinitionText(style, name, cf) ==
    IF style = "tight"
    THEN <<"\\", "n", "e", "w", "c", "o", "m", "m", "a", "n", "d", "{", "\\">>
         \o name \o <<"}">>
         \o (IF cf.has THEN <<"[">> \o cf.digits \o <<"]">> ELSE <<>>)
    ELSE <<"\\", "r", "e", "n", "e", "w", "c", "o", "m", "m", "a", "n", "d",
           " ", "{", " ", "\\">>
         \o name \o <<" ", "}">>
         \o (IF cf.has THEN <<"\t", "[", " ">> \o cf.digits \o <<" ", "]">>
             ELSE <<>>)

Noise == {<<"%">>, <<"\n">>, <<"\r", "\n">>, <<"\\">>}

\* whether the end of t lies after an unescaped % of its last line
InCommentTail(t) ==
    \E i \in 1..Len(t) :
        /\ t[i] = "%"
        /\ CharAt(t, i - 1) # "\\"
        /\ \A j \in i..Len(t) : t[j] \notin LineBreaks

InitText ==
    /\ text = <<>> /\ written = <<>> /\ tphase = "edit"
    /\ cleaned = <<>> /\ recleaned = <<>> /\ table = <<>>
    /\ IdleSnip /\ IdleGen /\ IdleMain

AppendDefinition(style, name, cf) ==
    /\ UNCHANGED <<snipVars, genVars, mainVars>>
    /\ tphase = "edit"
    /\ Len(written) < MaxFrags
    /\ text' = text \o DefinitionText(style, name, cf)
    /\ written' = Append(written,
                         [kind |-> "def", name |-> name, has |-> cf.has,
                          val |-> cf.val, commented |-> InCommentTail(text)])
    /\ UNCHANGED <<tphase, cleaned, recleaned, table>>

AppendNoise(frag) ==
    /\ UNCHANGED <<snipVars, genVars, mainVars>>
    /\ tphase = "edit"
    /\ Len(written) < MaxFrags
    /\ text' = text \o frag
    /\ written' = Append(written,
                         [kind |-> "noise", name |-> <<>>, has |-> FALSE,
                          val |-> 0, commented |-> FALSE])
    /\ UNCHANGED <<tphase, cleaned, recleaned, table>>

\* strip_comments applied to the text, and to its own result
StripComments ==
    /\ UNCHANGED <<snipVars, genVars, mainVars>>
    /\ tphase = "edit"
    /\ cleaned' = strip_comments(text)
    /\ recleaned' = strip_comments(cleaned')
    /\ tphase' = "stripped"
    /\ UNCHANGED <<text, written, table>>

ExtractCommands ==
    /\ UNCHANGED <<snipVars, genVars, mainVars>>
    /\ tphase = "edit"
    /\ IF extract_commands_raises(text)
       THEN /\ tphase' = "raised"
            /\ UNCHANGED table
       ELSE /\ table' = extract_commands(text)
            /\ tphase' = "extracted"
    /\ UNCHANGED <<text, written, cleaned, recleaned>>

NextText ==
    \/ \E h \in Headers, cf \in CountForms :
           AppendDefinition(h.style, h.name, cf)
    \/ \E frag \in Noise : AppendNoise(frag)
    \/ StripComments
    \/ ExtractCommands

SpecText == InitText /\ [][NextText]_vars

----------------------------------------------------------------------------
(* SpecSnippet: build_snippet on every configured name, one name outside   *)
(* the configuration, and every argument count up to MaxArgs               *)

foreign == <<"f", "o", "o", "@">>

MacroNames == {KEY_MAP[i].k : i \in 1..Len(KEY_MAP)} \cup {foreign}

InitSnippet ==
    /\ cmd \in MacroNames
    /\ n_args \in -1..MaxArgs
    /\ body = <<>>
    /\ built = FALSE
    /\ IdleText /\ IdleGen /\ IdleMain

BuildSnippet ==
    /\ UNCHANGED <<textVars, genVars, mainVars>>
    /\ ~built
    /\ body' = build_snippet(cmd, n_args)
    /\ built' = TRUE
    /\ UNCHANGED <<cmd, n_args>>

NextSnippet == BuildSnippet

SpecSnippet == InitSnippet /\ [][NextSnippet]_vars

----------------------------------------------------------------------------
(* SpecGen: the generators on every MacroTable over MacroNames with        *)
(* argument counts up to MaxTableArgs                                      *)

\* the table holding the names of S with the counts f, names in the order
\* of ks
RECURSIVE TableOf(_, _, _)
TableOf(ks, S, f) ==
    IF ks = <<>> THEN <<>>
    ELSE IF Head(ks) \in S
         THEN <<[k |-> Head(ks), v |-> f[Head(ks)]]>> \o TableOf(Tail(ks), S, f)
         ELSE TableOf(Tail(ks), S, f)

\* an order of the names unlike the configuration's
TableOrder ==
    <<foreign, highlightComment, modified, needRef, highlight, commented,
      added, deleted>>

InitGen ==
    /\ \E S \in SUBSET MacroNames :
           \E f \in [S -> 0..MaxTableArgs] : cmds = TableOf(TableOrder, S, f)
    /\ keybindings = <<>>
    /\ snippets = <<>>
    /\ generated = FALSE
    /\ IdleText /\ IdleSnip /\ IdleMain

\* keybindings = generate_keybindings(cmds); snippets = generate_snippets(cmds)
Generate ==
    /\ UNCHANGED <<textVars, snipVars, mainVars>>
    /\ ~generated
    /\ keybindings' = generate_keybindings(cmds)
    /\ snippets' = generate_snippets(cmds)
    /\ generated' = TRUE
    /\ UNCHANGED cmds

NextGen == Generate

SpecGen == InitGen /\ [][NextGen]_vars

----------------------------------------------------------------------------
(* SpecMain: main() on a command line and a file system *)

\* the path arguments a command line may hold
PathArgs == {"min.sty", "./min.sty", "notes.sty", "nope.sty", "styles"}

\* Path(p).expanduser().resolve(): the absolute path p names
resolve(p) ==
    CASE p = "min.sty" -> "/work/min.sty"
      [] p = "./min.sty" -> "/work/min.sty"
      [] p = "notes.sty" -> "/work/notes.sty"
      [] p = "nope.sty" -> "/work/nope.sty"
      [] p = "styles" -> "/work/styles"

\* \newcommand{\deleted}[1]{#1}
\* \newcommand{\modified}[2]{#2}
MinimalStyle ==
    <<"\\", "n", "e", "w", "c", "o", "m", "m", "a", "n", "d", "{", "\\">>
    \o deleted \o <<"}", "[", "1", "]", "{", "#", "1", "}", "\n">>
    \o <<"\\", "n", "e", "w", "c", "o", "m", "m", "a", "n", "d", "{", "\\">>
    \o modified \o <<"}", "[", "2", "]", "{", "#", "2", "}", "\n">>

\* % \newcommand{\added}[1]{}
\* \renewcommand{\highlight}{x} \% no comment
NotesStyle ==
    <<"%", " ", "\\", "n", "e", "w", "c", "o", "m", "m", "a", "n", "d", "{",
      "\\">> \o added \o <<"}", "[", "1", "]", "{", "}", "\n">>
    \o <<"\\", "r", "e", "n", "e", "w", "c", "o", "m", "m", "a", "n", "d",
         "{", "\\">> \o highlight
    \o <<"}", "{", "x", "}", " ", "\\", "%", " ", "n", "o", "\n">>

\* the file system the run finds: regular files with their text, and a
\* directory
RegularFiles == {"/work/min.sty", "/work/notes.sty"}
Directories == {"/work/styles"}

exists(path) == path \in RegularFiles \cup Directories

FileText(path) ==
    IF path = "/work/min.sty" THEN MinimalStyle ELSE NotesStyle

OutputFiles == {".vscode/keybindings.json", ".vscode/latex.json"}

\* an output file before the run: absent, present, or present and not
\* writable
Untouched(state) == [state |-> state, json |-> <<>>]

Written(doc) == [state |-> "written", json |-> doc]

Line(t) == [line |-> t, arg |-> <<>>, n |-> 0]

RECURSIVE SeqsUpTo(_, _)
SeqsUpTo(S, n) ==
    IF n = 0 THEN {<<>>}
    ELSE LET shorter == SeqsUpTo(S, n - 1)
         IN  shorter \cup {Append(q, x) : q \in shorter, x \in S}

InitMain ==
    /\ argv \in SeqsUpTo(PathArgs, MaxArgv)
    /\ vscode_dir \in BOOLEAN
    /\ files \in [OutputFiles -> {Untouched("absent"), Untouched("present"),
                                   Untouched("locked")}]
    /\ vscode_dir = FALSE => \A f \in OutputFiles : files[f].state = "absent"
    /\ pc = "start"
    /\ sty_path = ""
    /\ sty_text = <<>>
    /\ cmds = <<>> /\ keybindings = <<>> /\ snippets = <<>>
    /\ generated = FALSE
    /\ exit_status = -1
    /\ stdout = <<>>
    /\ IdleText /\ IdleSnip

\* faulty variant of ValidateArgs: the return after the usage line is missing
ValidateArgs_NoReturn ==
    /\ UNCHANGED <<textVars, snipVars>>
    /\ pc = "start"
    /\ IF Len(argv) + 1 < 2
       THEN stdout' = Append(stdout,
                Line("Usage: python3 generate_muse_bindings_mac_ctrl.py <path-to-sty>"))
       ELSE UNCHANGED stdout
    /\ pc' = "resolve"
    /\ UNCHANGED <<argv, vscode_dir, files, sty_path, sty_text, genVars,
                   exit_status>>

\* if len(sys.argv) < 2: print usage; return 2
ValidateArgs ==
    /\ UNCHANGED <<textVars, snipVars>>
    /\ pc = "start"
    /\ IF Len(argv) + 1 < 2
       THEN /\ stdout' = Append(stdout,
                Line("Usage: python3 generate_muse_bindings_mac_ctrl.py <path-to-sty>"))
            /\ exit_status' = 2
            /\ pc' = "done"
       ELSE /\ pc' = "resolve"
            /\ UNCHANGED <<stdout, exit_status>>
    /\ UNCHANGED <<argv, vscode_dir, files, sty_path, sty_text, genVars>>

\* faulty variant of ValidatePath: the return after the error line is missing
ValidatePath_NoReturn ==
    /\ UNCHANGED <<textVars, snipVars>>
    /\ pc = "resolve"
    /\ Len(argv) > 0
    /\ sty_path' = resolve(argv[1])
    /\ IF ~exists(sty_path')
       THEN stdout' = Append(stdout,
                [line |-> "ERROR: file not found: ", arg |-> sty_path',
                 n |-> 0])
       ELSE UNCHANGED stdout
    /\ pc' = "read"
    /\ UNCHANGED <<argv, vscode_dir, files, sty_text, genVars, exit_status>>

\* sty_path = Path(sys.argv[1]).expanduser().resolve()
\* if not sty_path.exists(): print error; return 2
ValidatePath ==
    /\ UNCHANGED <<textVars, snipVars>>
    /\ pc = "resolve"
    /\ IF Len(argv) = 0
       THEN \* sys.argv[1] raises IndexError
            /\ pc' = "raised"
            /\ exit_status' = 1
            /\ UNCHANGED <<sty_path, stdout>>
       ELSE /\ sty_path' = resolve(argv[1])
            /\ IF ~exists(sty_path')
               THEN /\ stdout' = Append(stdout,
                        [line |-> "ERROR: file not found: ", arg |-> sty_path',
                         n |-> 0])
                    /\ exit_status' = 2
                    /\ pc' = "done"
               ELSE /\ pc' = "read"
                    /\ UNCHANGED <<stdout, exit_status>>
    /\ UNCHANGED <<argv, vscode_dir, files, sty_text, genVars>>

\* sty_text = read_text(sty_path); reading a directory raises
ReadText ==
    /\ UNCHANGED <<textVars, snipVars>>
    /\ pc = "read"
    /\ IF sty_path \in RegularFiles
       THEN /\ sty_text' = FileText(sty_path)
            /\ pc' = "extract"
            /\ UNCHANGED exit_status
       ELSE /\ pc' = "raised"
            /\ exit_status' = 1
            /\ UNCHANGED sty_text
    /\ UNCHANGED <<argv, vscode_dir, files, sty_path, stdout, genVars>>

\* cmds = extract_commands(sty_text); keybindings = ...; snippets = ...
ExtractAndGenerate ==
    /\ UNCHANGED <<textVars, snipVars>>
    /\ pc = "extract"
    /\ IF extract_commands_raises(sty_text)
       THEN /\ pc' = "raised"
            /\ exit_status' = 1
            /\ UNCHANGED genVars
       ELSE /\ cmds' = extract_commands(sty_text)
            /\ keybindings' = generate_keybindings(cmds')
            /\ snippets' = generate_snippets(cmds')
            /\ generated' = TRUE
            /\ pc' = "write_keybindings"
            /\ UNCHANGED exit_status
    /\ UNCHANGED <<argv, vscode_dir, files, sty_path, sty_text, stdout>>

\* Path(f).write_text(json.dumps(doc, ...)): raises when the directory is
\* missing or the file cannot be written
write_text(f, doc, next) ==
    /\ IF vscode_dir /\ files[f].state # "locked"
       THEN /\ files' = [files EXCEPT ![f] = Written(doc)]
            /\ pc' = next
            /\ UNCHANGED exit_status
       ELSE /\ pc' = "raised"
            /\ exit_status' = 1
            /\ UNCHANGED files
    /\ UNCHANGED <<argv, vscode_dir, sty_path, sty_text, stdout, genVars>>

WriteKeybindings ==
    /\ UNCHANGED <<textVars, snipVars>>
    /\ pc = "write_keybindings"
    /\ write_text(".vscode/keybindings.json", keybindings, "write_latex")

WriteLatex ==
    /\ UNCHANGED <<textVars, snipVars>>
    /\ pc = "write_latex"
    /\ write_text(".vscode/latex.json", snippets, "summary")

\* for cmd in KEY_MAP: if cmd in cmds: print(f"  \\{cmd} [{cmds[cmd]} args]")
Included ==
    LET ks == SelectSeq(DictKeys(KEY_MAP), LAMBDA c : DictHas(cmds, c))
    IN  [i \in 1..Len(ks) |->
            [line |-> "  \\{cmd} [{cmds[cmd]} args]", arg |-> ks[i],
             n |-> DictGet(cmds, ks[i])]]

\* the prints after the writes; return 0
PrintSummary ==
    /\ UNCHANGED <<textVars, snipVars>>
    /\ pc = "summary"
    /\ stdout' = stdout
                  \o <<Line("Generated files:"),
                       Line("  - .vscode/keybindings.json"),
                       Line("  - .vscode/latex.json"),
                       Line("\nIncluded commands:")>>
                  \o Included
                  \o <<Line("\nNote:"),
                       Line("  If a primary key conflicts, use its ctrl+shift fallback.")>>
    /\ exit_status' = 0
    /\ pc' = "done"
    /\ UNCHANGED <<argv, vscode_dir, files, sty_path, sty_text, genVars>>

main ==
    \/ ValidateArgs
    \/ ValidatePath
    \/ ReadText
    \/ ExtractAndGenerate
    \/ WriteKeybindings
    \/ WriteLatex
    \/ PrintSummary

NextMain == main

SpecMain == InitMain /\ [][NextMain]_vars

----------------------------------------------------------------------------
(* Properties of the scan (SpecText) *)

\* C1: stripping comments twice gives the same text as stripping once.
C1_StripIdempotent == tphase = "stripped" => recleaned = cleaned

HeaderNames == {h.name : h \in Headers}

\* the definition constructs naming X written outside any comment tail, in
\* source order
LiveDefinitions(X) ==
    SelectSeq(written,
              LAMBDA w : w.kind = "def" /\ w.name = X /\ ~w.commented)

CommentedDefinitions(X) ==
    SelectSeq(written,
              LAMBDA w : w.kind = "def" /\ w.name = X /\ w.commented)

\* C4: a macro defined by exactly one construct outside comments is in the
\* table with the construct's bracketed count, or 0 when it has none; a
\* macro whose constructs all lie in comment tails has no entry.
C4_SingleDefinitionCount ==
    tphase = "extracted" =>
        \A X \in HeaderNames :
            LET live == LiveDefinitions(X)
            IN  /\ Len(live) = 1 =>
                       /\ DictHas(table, X)
                       /\ DictGet(table, X) =
                              (IF live[1].has THEN live[1].val ELSE 0)
                /\ Len(live) = 0 => ~DictHas(table, X)

\* one macro defined once, with the count 10, and another defined only
\* inside a comment tail
C4_Witness ==
    /\ tphase = "extracted"
    /\ \E X \in HeaderNames, Y \in HeaderNames :
           /\ X # Y
           /\ Len(LiveDefinitions(X)) = 1
           /\ LiveDefinitions(X)[1].has
           /\ LiveDefinitions(X)[1].val = 10
           /\ DictHas(table, X) /\ DictGet(table, X) = 10
           /\ Len(CommentedDefinitions(Y)) = 1
           /\ Len(LiveDefinitions(Y)) = 0
           /\ ~DictHas(table, Y)

\* C5: a macro defined more than once has the count of its last definition
\* in source order, and the table holds one entry per defined name.
C5_LastDefinitionWins ==
    tphase = "extracted" =>
        /\ \A X \in HeaderNames :
               LET live == LiveDefinitions(X)
               IN  Len(live) >= 2 =>
                       /\ DictHas(table, X)
                       /\ DictGet(table, X) = live[Len(live)].val
        /\ \A i, j \in 1..Len(table) : table[i].k = table[j].k => i = j
        /\ {table[i].k : i \in 1..Len(table)}
               = {X \in HeaderNames : Len(LiveDefinitions(X)) >= 1}

\* a macro defined with the count 10 and then again without a count
C5_Witness ==
    /\ tphase = "extracted"
    /\ \E X \in HeaderNames :
           /\ Len(LiveDefinitions(X)) = 2
           /\ LiveDefinitions(X)[1].val = 10
           /\ ~LiveDefinitions(X)[2].has
           /\ DictHas(table, X) /\ DictGet(table, X) = 0

----------------------------------------------------------------------------
(* Properties of build_snippet (SpecSnippet) *)

\* the number of braces open after the first i characters of b
Depth(b, i) ==
    Cardinality({j \in 1..i : b[j] = "{"})
    - Cardinality({j \in 1..i : b[j] = "}"})

GroupOpens(b) == {i \in 1..Len(b) : b[i] = "{" /\ Depth(b, i - 1) = 0}

GroupCloses(b) == {i \in 1..Len(b) : b[i] = "}" /\ Depth(b, i) = 0}

\* the k-th smallest element of S
Nth(S, k) == CHOOSE x \in S : Cardinality({y \in S : y <= x}) = k

\* the contents of the outermost brace groups of b, in order
ArgumentGroups(b) ==
    [k \in 1..Cardinality(GroupOpens(b)) |->
        SubSeq(b, Nth(GroupOpens(b), k) + 1, Nth(GroupCloses(b), k) - 1)]

\* b is \c followed by brace groups only, each starting where the last ended
IsInvocation(b, c) ==
    LET opens == GroupOpens(b)
        closes == GroupCloses(b)
        n == Cardinality(opens)
    IN  /\ n >= 1
        /\ Cardinality(closes) = n
        /\ SubSeq(b, 1, Nth(opens, 1) - 1) = <<"\\">> \o c
        /\ \A k \in 1..(n - 1) : Nth(opens, k + 1) = Nth(closes, k) + 1
        /\ Nth(closes, n) = Len(b)

Colons(g) == {i \in 1..Len(g) : g[i] = ":"}

\* g is ${N:label} for a decimal number N
IsTabStop(g) ==
    /\ Len(g) >= 5
    /\ g[1] = "$" /\ g[2] = "{" /\ g[Len(g)] = "}"
    /\ Colons(g) # {}
    /\ Min(Colons(g)) > 3
    /\ \A i \in 3..(Min(Colons(g)) - 1) :
           \E d \in 1..10 : g[i] = AsciiDigits[d]

TabStopDigits(g) == SubSeq(g, 3, Min(Colons(g)) - 1)

TabStopLabel(g) == SubSeq(g, Min(Colons(g)) + 1, Len(g) - 1)

Contains(b, lit) == \E i \in 1..Len(b) : LitAt(b, i, lit)

\* C8: with two arguments the first group holds the selection and the
\* second holds tab-stop 2, labelled "corrected text" for modified, "comment"
\* for commented and highlightComment, "argument 2" otherwise; no other
\* argument count uses the two special labels.
C8_SecondGroupLabel ==
    built =>
        IF n_args = 2
        THEN LET gs == ArgumentGroups(body)
             IN  /\ IsInvocation(body, cmd)
                 /\ Len(gs) = 2
                 /\ gs[1] = Selection
                 /\ IsTabStop(gs[2])
                 /\ TabStopDigits(gs[2]) = <<"2">>
                 /\ TabStopLabel(gs[2]) =
                        (IF cmd = modified THEN LabelCorrected
                         ELSE IF cmd \in {commented, highlightComment}
                              THEN LabelComment
                         ELSE LabelArgument \o <<"2">>)
        ELSE /\ ~Contains(body, LabelCorrected)
             /\ ~Contains(body, LabelComment)

\* modified with two arguments
C8_Witness ==
    /\ built /\ n_args = 2 /\ cmd = modified
    /\ Contains(body, LabelCorrected)

\* C9: with n >= 3 arguments the body is the invocation followed by exactly
\* n groups; the first holds the selection, and the i-th (2 <= i <= n)
\* holds tab-stop i labelled "argument i".
C9_NumberedGroups ==
    (built /\ n_args >= 3) =>
        LET gs == ArgumentGroups(body)
        IN  /\ IsInvocation(body, cmd)
            /\ Len(gs) = n_args
            /\ gs[1] = Selection
            /\ \A i \in 2..n_args :
                   /\ IsTabStop(gs[i])
                   /\ TabStopDigits(gs[i])[1] # "0"
                   /\ int(TabStopDigits(gs[i])) = i
                   /\ TabStopLabel(gs[i]) = LabelArgument \o TabStopDigits(gs[i])

\* eleven arguments: tab-stops 10 and 11 take two digits
C9_Witness ==
    /\ built /\ n_args = 11
    /\ Len(ArgumentGroups(body)) = 11
    /\ TabStopDigits(ArgumentGroups(body)[11]) = <<"1", "1">>

----------------------------------------------------------------------------
(* Properties of the generators (SpecGen) *)

\* the configured macros the table defines, in configuration order
Matched == SelectSeq(DictKeys(KEY_MAP), LAMBDA c : DictHas(cmds, c))

\* whether part is one of the parts of the chord between its + signs
HasPart(key, part) ==
    \E a \in 1..Len(key) :
        /\ a = 1 \/ key[a - 1] = "+"
        /\ LitAt(key, a, part)
        /\ a + Len(part) = Len(key) + 1 \/ CharAt(key, a + Len(part)) = "+"

HasAlt(key) == HasPart(key, <<"a", "l", "t">>)

Ctrl == <<"c", "t", "r", "l">>
Shift == <<"s", "h", "i", "f", "t">>
Alt == <<"a", "l", "t">>
Plus == <<"+">>

\* C6: a macro of the alternate-modifier set is bound to ctrl+alt+<key> and
\* ctrl+shift+alt+<key>, both holding alt; any other macro is bound to
\* ctrl+<key> and ctrl+shift+<key>, neither holding alt.
C6_AltChords ==
    generated =>
        LET M == Matched
        IN  /\ Len(keybindings) = 2 * Len(M)
            /\ \A i \in 1..Len(M) :
                   LET base == DictGet(KEY_MAP, M[i])
                       primary == keybindings[2 * i - 1].key
                       fallback == keybindings[2 * i].key
                   IN  IF M[i] = highlightComment
                       THEN /\ primary = Ctrl \o Plus \o Alt \o Plus \o base
                            /\ fallback = Ctrl \o Plus \o Shift \o Plus \o Alt
                                          \o Plus \o base
                            /\ HasAlt(primary) /\ HasAlt(fallback)
                       ELSE /\ primary = Ctrl \o Plus \o base
                            /\ fallback = Ctrl \o Plus \o Shift \o Plus \o base
                            /\ ~HasAlt(primary) /\ ~HasAlt(fallback)

\* a table defining highlightComment and a macro outside the set
C6_Witness ==
    /\ generated
    /\ DictHas(cmds, highlightComment)
    /\ DictHas(cmds, added)
    /\ \E i \in 1..Len(keybindings) : HasAlt(keybindings[i].key)
    /\ \E i \in 1..Len(keybindings) : ~HasAlt(keybindings[i].key)

MuseKey(c) == <<"m", "u", "s", "e", ":", " ">> \o c

\* whether snippet body b invokes macro c: a backslash, the name, and no
\* further letter
Invokes(b, c) ==
    /\ LitAt(b, 1, <<"\\">> \o c)
    /\ CharAt(b, Len(c) + 2) \notin Letters

\* C7: the outputs cover exactly the macros in both the configuration and
\* the table, in configuration order: two bindings each (primary, then
\* fallback, same body, fixed command and guard) and one snippet entry
\* keyed "muse: <name>" whose single body line is that body.
C7_OutputsCoverMatched ==
    generated =>
        LET M == Matched
        IN  /\ Len(keybindings) = 2 * Len(M)
            /\ DictKeys(snippets) = [i \in 1..Len(M) |-> MuseKey(M[i])]
            /\ \A i \in 1..Len(M) :
                   LET primary == keybindings[2 * i - 1]
                       fallback == keybindings[2 * i]
                   IN  /\ Invokes(primary.args.snippet, M[i])
                       /\ fallback.args.snippet = primary.args.snippet
                       /\ primary.key # fallback.key
                       /\ primary.command = "editor.action.insertSnippet"
                       /\ fallback.command = "editor.action.insertSnippet"
                       /\ primary.when = "editorTextFocus && editorLangId == latex"
                       /\ fallback.when = "editorTextFocus && editorLangId == latex"
                       /\ snippets[i].v.body = <<primary.args.snippet>>

\* the table defining only deleted (1 argument) and modified (2 arguments)
C7_Witness ==
    /\ generated
    /\ Len(cmds) = 2
    /\ DictHas(cmds, deleted) /\ DictGet(cmds, deleted) = 1
    /\ DictHas(cmds, modified) /\ DictGet(cmds, modified) = 2
    /\ Len(keybindings) = 4
    /\ DictKeys(snippets) = <<MuseKey(deleted), MuseKey(modified)>>

\* C10: no two bindings of the list have the same chord.
C10_DistinctChords ==
    generated =>
        \A i, j \in 1..Len(keybindings) :
            keybindings[i].key = keybindings[j].key => i = j

\* every configured macro is defined: highlight and highlightComment share h
C10_Witness ==
    /\ generated
    /\ Len(Matched) = Len(KEY_MAP)
    /\ Len(keybindings) = 14

----------------------------------------------------------------------------
(* Properties of main (SpecMain) *)

UsageLine ==
    Line("Usage: python3 generate_muse_bindings_mac_ctrl.py <path-to-sty>")

Printed(l) == \E i \in 1..Len(stdout) : stdout[i] = l

WrittenFiles == {f \in OutputFiles : files[f].state = "written"}

\* the positions of main from the read on
FromRead ==
    {"read", "extract", "write_keybindings", "write_latex", "summary"}

\* C2 as stated: any number of path arguments other than one ends in the
\* usage message and a non-zero status, before the read and the writes.
C2_ExactlyOneArgument ==
    Len(argv) # 1 =>
        /\ pc \notin FromRead
        /\ pc \in {"done", "raised"} =>
               /\ exit_status # 0
               /\ Printed(UsageLine)
               /\ sty_text = <<>>
               /\ WrittenFiles = {}

\* C2, amended: with no path argument main prints the usage line, returns
\* 2 and neither reads nor writes; with one or more it never prints the
\* usage line and works on the first argument alone.
C2_MissingArgumentRejected ==
    /\ Len(argv) = 0 =>
           /\ pc \in {"start", "done"}
           /\ pc = "done" => exit_status = 2 /\ stdout = <<UsageLine>>
           /\ sty_text = <<>>
           /\ WrittenFiles = {}
    /\ Len(argv) >= 1 =>
           /\ ~Printed(UsageLine)
           /\ pc \notin {"start", "resolve"} => sty_path = resolve(argv[1])

\* a run without path arguments has returned
C2_Witness == Len(argv) = 0 /\ pc = "done" /\ exit_status = 2

\* whether the command line fails one of the two validation checks
Invalid == Len(argv) = 0 \/ ~exists(resolve(argv[1]))

\* C3: a missing argument or a path that does not exist ends in status 2
\* with no output file written; a written output file means both checks
\* passed; a run that returned 0 has written both files.
C3_WritesOnlyAfterValidation ==
    /\ Invalid =>
           /\ pc \in {"start", "resolve", "done"}
           /\ pc = "done" => exit_status = 2
           /\ WrittenFiles = {}
    /\ WrittenFiles # {} =>
           /\ ~Invalid
           /\ pc \in {"write_latex", "summary", "done", "raised"}
    /\ exit_status = 0 => pc = "done" /\ WrittenFiles = OutputFiles

\* a run on a path that does not exist has returned, the output files being
\* there to overwrite
C3_Witness ==
    /\ Len(argv) >= 1 /\ ~exists(resolve(argv[1]))
    /\ pc = "done" /\ exit_status = 2
    /\ vscode_dir
    /\ \A f \in OutputFiles : files[f].state = "present"

====
